---- MODULE Spec2Model ----
(***************************************************************************)
(* Model of src/main.py: the command-line chat client "ask".               *)
(*                                                                         *)
(* The model covers main() from the construction of the client (line 116)  *)
(* on, ask() and num_tokens_from_messages().                               *)
(*                                                                         *)
(* Text is a sequence of symbols.  An ordinary symbol is one character.    *)
(* Three symbols stand for long texts, so that conversations whose token   *)
(* estimate comes near tokenLimit (128000) stay small values:              *)
(*   "#"              a pasted block of text that encodes to 127880 tokens *)
(*   "persona-stream" the system prompt of line 121                        *)
(*   "persona-once"   the system prompt of line 136                        *)
(* The tokenizer (tiktoken) is a library outside the repository; only the  *)
(* length of its output is used (line 42).  It is modelled as a symbol by  *)
(* symbol sum, EncodeLen.                                                  *)
(*                                                                         *)
(* The remote endpoint is outside the repository as well.  It is modelled  *)
(* as an adversary: it may refuse a request, deliver any fragment (with or *)
(* without content), fail between two fragments, or end the stream.  The   *)
(* one thing assumed of it is that it refuses a request that carries no    *)
(* message at all (the chat-completions protocol requires at least one).   *)
(*                                                                         *)
(* Python raises an exception where the code has no handler: main.py has   *)
(* no try statement, so every exception ends the process (pc = "crashed",  *)
(* error = the exception).                                                 *)
(***************************************************************************)
EXTENDS Integers, Sequences, FiniteSets, TLC

VARIABLES
    args,         \* the parsed command line (line 97): stream, temperature, tokenLimit, string
    model,        \* ASK_GLOBAL_MODEL, the configured model id (lines 14-23)
    pc,           \* position of the program
    userchat,     \* main's userchat; ask's parameter messages is the same list object
    temperature,  \* ask's parameter temperature for the call in progress (tenths)
    requests,     \* every request opened by client.chat.completions.create, in order
    delivered,    \* the chunks pulled from the stream of the call in progress, in order
    buffer,       \* ask's local buffer
    sink,         \* everything written to standard output, in order
    response,     \* the value returned by the last ask() call
    userInput,    \* the last outcome of input() (line 127)
    error,        \* the uncaught exception that ended the process, or "none"
    cycles,       \* number of operator lines that started a cycle
    pulled,       \* number of chunks pulled over the whole session
    entry,        \* messages as they were when ask() was entered
    history,      \* every turn ever put into the conversation, in order
    callStart     \* Len(sink) when ask() was entered

vars == <<args, model, pc, userchat, temperature, requests, delivered, buffer, sink,
          response, userInput, error, cycles, pulled, entry, history, callStart>>

----------------------------------------------------------------------------
(* Bounds of the model *)

\* operator lines (other than "exit") read in one interactive session
MaxCycles == 2

\* chunks the remote endpoint delivers over one session
MaxChunks == 3

\* turns of a conversation handed to ask() directly
MaxTurns == 3

----------------------------------------------------------------------------
(* Program constants *)

\* line 28
tokenLimit == 128000

\* line 36
tokens_per_message == 3

\* line 37
tokens_per_name == 1

\* lines 66 and 77: the default temperature 0.7, in tenths
DefaultTemperature == 7

----------------------------------------------------------------------------
(* Values *)

NoText == <<>>

\* Python's None as a returned value, and a returned string
None == [isNone |-> TRUE, text |-> NoText]

Str(t) == [isNone |-> FALSE, text |-> t]

Turn(role, content) == [role |-> role, content |-> content]

Newline == "\n"

Banner == "Type 'exit' to quit."

PersonaStream == <<"persona-stream">>

PersonaOnce == <<"persona-once">>

ExitLine == <<"e", "x", "i", "t">>

\* what the operator may type on one line (line 127)
Lines == { ExitLine, <<"E", "x", "i", "t">>, NoText, <<"#">>, <<"#", "#">> }

\* " ".join(args.string), lines 122 and 137
Questions == { <<"h", "i">>, <<"#", "#">> }

\* the value of ASK_GLOBAL_MODEL: the default (line 11), or an id from the
\* environment for which tiktoken has no encoding
Models == { "gpt-4o-mini", "unknown-model" }

\* a chunk of the stream: chunk.choices[0].delta.content is None or a string
Chunk(has, content) == [hasContent |-> has, content |-> content]

Chunks ==
    { Chunk(FALSE, NoText), Chunk(TRUE, NoText), Chunk(TRUE, <<"H">>),
      Chunk(TRUE, <<"e", "l">>) }

----------------------------------------------------------------------------
(* num_tokens_from_messages, lines 31-46 *)

\* tokens of one symbol under the modelled encoding
SymbolTokens(s) ==
    CASE s = "#" -> 127880
      [] s = "persona-stream" -> 26
      [] s = "persona-once" -> 31
      [] OTHER -> 1

RECURSIVE EncodeLen(_)
\* len(encoding.encode(value)) for a text value, line 42
EncodeLen(text) ==
    IF text = <<>> THEN 0
    ELSE SymbolTokens(Head(text)) + EncodeLen(Tail(text))

\* ValueTokens with line 42 counting the content value only
ValueTokens_ContentOnly(message, key) ==
    (IF key = "content" THEN EncodeLen(message[key]) ELSE 0)
    + (IF key = "name" THEN tokens_per_name ELSE 0)

\* len(encoding.encode(value)) for the value of one key of a message, lines 42-44
\* (each of the role names system, user and assistant encodes to one token)
ValueTokens(message, key) ==
    (IF key = "role" THEN 1 ELSE EncodeLen(message[key]))
    + (IF key = "name" THEN tokens_per_name ELSE 0)

RECURSIVE ItemsTokens(_, _)
\* the inner loop over message.items(), lines 41-44
ItemsTokens(message, keys) ==
    IF keys = {} THEN 0
    ELSE LET key == CHOOSE k \in keys : TRUE
         IN ValueTokens(message, key) + ItemsTokens(message, keys \ {key})

\* MessagesTokens with line 40 as num_tokens = tokens_per_message: the count
\* starts again at every message
MessagesTokens_Assigns(messages) ==
    IF messages = <<>> THEN 0
    ELSE tokens_per_message
         + ItemsTokens(messages[Len(messages)], DOMAIN messages[Len(messages)])

RECURSIVE MessagesTokens(_)
\* the outer loop, lines 39-44
MessagesTokens(messages) ==
    IF messages = <<>> THEN 0
    ELSE tokens_per_message
         + ItemsTokens(Head(messages), DOMAIN Head(messages))
         + MessagesTokens(Tail(messages))

num_tokens_from_messages(messages) == MessagesTokens(messages) + 3

----------------------------------------------------------------------------
(* ask(), lines 77-92 *)

\* tiktoken.encoding_for_model(model) of line 35 finds an encoding; when it
\* finds none it raises KeyError
HasEncoding(m) == m # "unknown-model"

\* the loop condition of line 81
OverLimit(messages) == num_tokens_from_messages(messages) + 100 > tokenLimit

\* the frame of a call of ask(): what the caller sets when it calls
Call(messages, temp, out) ==
    /\ pc' = "ask"
    /\ temperature' = temp
    /\ entry' = messages
    /\ callStart' = Len(out)
    /\ delivered' = <<>>
    /\ buffer' = NoText
    /\ response' = None

\* an exception nobody catches ends the process
Raise(exception) ==
    /\ pc' = "crashed"
    /\ error' = exception

\* AskEntry without the test of line 78: an empty conversation goes on to the request
AskEntry_NoEmptyTest ==
    /\ pc = "ask"
    /\ pc' = IF Len(userchat) > 1 THEN "trim" ELSE "create"
    /\ UNCHANGED <<args, model, history, userchat, temperature, requests, delivered, buffer, sink,
                   response, userInput, error, cycles, pulled, entry, callStart>>

\* AskEntry with the test of line 80 as len(messages) > 0
AskEntry_TrimsLoneTurn ==
    /\ pc = "ask"
    /\ IF Len(userchat) = 0
         THEN /\ pc' = "returned"
              /\ response' = None
         ELSE /\ pc' = "trim"
              /\ UNCHANGED response
    /\ UNCHANGED <<args, model, history, userchat, temperature, requests, delivered,
                   buffer, sink, userInput, error, cycles, pulled, entry, callStart>>

\* lines 78-80: the two tests on len(messages)
AskEntry ==
    /\ pc = "ask"
    /\ IF Len(userchat) = 0
         THEN /\ pc' = "returned"
              /\ response' = None
         ELSE /\ pc' = IF Len(userchat) > 1 THEN "trim" ELSE "create"
              /\ UNCHANGED response
    /\ UNCHANGED <<args, model, history, userchat, temperature, requests, delivered, buffer, sink,
                   userInput, error, cycles, pulled, entry, callStart>>

\* TrimPop with line 82 as messages.pop(): the newest turn is evicted
TrimPop_PopsLast ==
    /\ pc = "trim"
    /\ HasEncoding(model)
    /\ OverLimit(userchat)
    /\ IF userchat = <<>>
         THEN /\ Raise("IndexError")
              /\ UNCHANGED userchat
         ELSE /\ userchat' = SubSeq(userchat, 1, Len(userchat) - 1)
              /\ UNCHANGED <<pc, error>>
    /\ UNCHANGED <<args, model, history, temperature, requests, delivered, buffer,
                   sink, response, userInput, cycles, pulled, entry, callStart>>

\* lines 81-82: one iteration of the while loop; pop(0) of an empty list raises
TrimPop ==
    /\ pc = "trim"
    /\ HasEncoding(model)
    /\ OverLimit(userchat)
    /\ IF userchat = <<>>
         THEN /\ Raise("IndexError")
              /\ UNCHANGED userchat
         ELSE /\ userchat' = Tail(userchat)
              /\ UNCHANGED <<pc, error>>
    /\ UNCHANGED <<args, model, history, temperature, requests, delivered, buffer, sink, response,
                   userInput, cycles, pulled, entry, callStart>>

\* TrimExit with line 81 as an if statement: the loop is left after one test
TrimExit_NoLoop ==
    /\ pc = "trim"
    /\ HasEncoding(model)
    /\ pc' = "create"
    /\ UNCHANGED <<args, model, history, userchat, temperature, requests, delivered,
                   buffer, sink, response, userInput, error, cycles, pulled, entry,
                   callStart>>

\* line 81: the loop condition is false
TrimExit ==
    /\ pc = "trim"
    /\ HasEncoding(model)
    /\ ~OverLimit(userchat)
    /\ pc' = "create"
    /\ UNCHANGED <<args, model, history, userchat, temperature, requests, delivered, buffer, sink,
                   response, userInput, error, cycles, pulled, entry, callStart>>

\* TrimUnsupported with a default estimate (0 tokens) in place of the error
TrimUnsupported_DefaultCount ==
    /\ pc = "trim"
    /\ ~HasEncoding(model)
    /\ pc' = "create"
    /\ UNCHANGED <<args, model, history, userchat, temperature, requests, delivered,
                   buffer, sink, response, userInput, error, cycles, pulled, entry,
                   callStart>>

\* lines 81 and 35: the loop condition calls num_tokens_from_messages, which
\* raises KeyError when the model id has no encoding
TrimUnsupported ==
    /\ pc = "trim"
    /\ ~HasEncoding(model)
    /\ Raise("KeyError")
    /\ UNCHANGED <<args, model, history, userchat, temperature, requests, delivered,
                   buffer, sink, response, userInput, cycles, pulled, entry, callStart>>

\* lines 83-85: the request is opened and the endpoint starts a stream
\* (the endpoint starts none for a request without messages: see CreateError)
CreateOpen ==
    /\ pc = "create"
    /\ userchat # <<>>
    /\ requests' = Append(requests, [messages |-> userchat, temperature |-> temperature])
    /\ buffer' = NoText
    /\ pc' = "stream"
    /\ UNCHANGED <<args, model, history, userchat, temperature, delivered, sink, response, userInput,
                   error, cycles, pulled, entry, callStart>>

\* lines 83-84: the request is opened and create() raises: the endpoint
\* refuses a request without messages, and any request may fail in transport
CreateError ==
    /\ pc = "create"
    /\ requests' = Append(requests, [messages |-> userchat, temperature |-> temperature])
    /\ Raise(IF userchat = <<>> THEN "BadRequestError" ELSE "TransportError")
    /\ UNCHANGED <<args, model, history, userchat, temperature, delivered, buffer, sink, response,
                   userInput, cycles, pulled, entry, callStart>>

\* NextChunk with line 90 as buffer = content + buffer
NextChunk_Prepends(chunk) ==
    /\ pc = "stream"
    /\ pulled < MaxChunks
    /\ pulled' = pulled + 1
    /\ delivered' = Append(delivered, chunk)
    /\ IF chunk.hasContent
         THEN /\ sink' = sink \o chunk.content
              /\ buffer' = chunk.content \o buffer
         ELSE UNCHANGED <<sink, buffer>>
    /\ UNCHANGED <<args, model, history, pc, userchat, temperature, requests, response, userInput,
                   error, cycles, entry, callStart>>

\* lines 86-90: the loop pulls one chunk and handles it
NextChunk(chunk) ==
    /\ pc = "stream"
    /\ pulled < MaxChunks
    /\ pulled' = pulled + 1
    /\ delivered' = Append(delivered, chunk)
    /\ IF chunk.hasContent
         THEN /\ sink' = sink \o chunk.content
              /\ buffer' = buffer \o chunk.content
         ELSE UNCHANGED <<sink, buffer>>
    /\ UNCHANGED <<args, model, history, pc, userchat, temperature, requests, response, userInput,
                   error, cycles, entry, callStart>>

\* StreamError with a handler that keeps the partial reply as an assistant turn
StreamError_AppendsPartial ==
    /\ pc = "stream"
    /\ Raise("TransportError")
    /\ userchat' = Append(userchat, Turn("assistant", buffer))
    /\ UNCHANGED <<args, model, history, temperature, requests, delivered, buffer, sink,
                   response, userInput, cycles, pulled, entry, callStart>>

\* line 86: the iterator raises instead of yielding the next chunk
StreamError ==
    /\ pc = "stream"
    /\ Raise("TransportError")
    /\ UNCHANGED <<args, model, history, userchat, temperature, requests, delivered, buffer, sink,
                   response, userInput, cycles, pulled, entry, callStart>>

\* StreamEnd with the newline of line 91 added to the buffer as well
StreamEnd_ReturnsNewline ==
    /\ pc = "stream"
    /\ sink' = Append(sink, Newline)
    /\ response' = Str(Append(buffer, Newline))
    /\ pc' = "returned"
    /\ UNCHANGED <<args, model, history, userchat, temperature, requests, delivered, buffer,
                   userInput, error, cycles, pulled, entry, callStart>>

\* lines 86, 91-92: the stream ends; print() and return buffer
StreamEnd ==
    /\ pc = "stream"
    /\ sink' = Append(sink, Newline)
    /\ response' = Str(buffer)
    /\ pc' = "returned"
    /\ UNCHANGED <<args, model, history, userchat, temperature, requests, delivered, buffer,
                   userInput, error, cycles, pulled, entry, callStart>>

Ask ==
    \/ AskEntry
    \/ TrimPop
    \/ TrimExit
    \/ TrimUnsupported
    \/ CreateOpen
    \/ CreateError
    \/ \E chunk \in Chunks : NextChunk(chunk)
    \/ StreamError
    \/ StreamEnd

----------------------------------------------------------------------------
(* main(), lines 116-140 *)

\* lines 117-124: --stream given
MainStream ==
    /\ pc = "main"
    /\ args.stream
    /\ sink' = sink \o <<Banner, Newline>>
    /\ userchat' = <<Turn("system", PersonaStream), Turn("user", args.string)>>
    /\ history' = userchat'
    /\ Call(userchat', args.temperature, sink')
    /\ UNCHANGED <<args, model, requests, userInput, error, cycles, pulled>>

\* lines 133-139: no --stream
MainSingle ==
    /\ pc = "main"
    /\ ~args.stream
    /\ userchat' = <<Turn("system", PersonaOnce), Turn("user", args.string)>>
    /\ history' = userchat'
    /\ Call(userchat', args.temperature, sink)
    /\ UNCHANGED <<args, model, requests, sink, userInput, error, cycles, pulled>>

\* lines 125, 132 and 140: the reply is appended; ask's frame is gone
AppendAssistant ==
    /\ pc = "returned"
    /\ userchat' = Append(userchat, Turn("assistant", response.text))
    /\ history' = Append(history, Turn("assistant", response.text))
    /\ pc' = IF args.stream THEN "input" ELSE "done"
    /\ delivered' = <<>>
    /\ buffer' = NoText
    /\ UNCHANGED <<args, model, temperature, requests, sink, response, userInput, error,
                   cycles, pulled, entry, callStart>>

\* ReadInput with line 130 moved before the test of line 128
ReadInput_AppendsBeforeTest(line) ==
    /\ pc = "input"
    /\ line = ExitLine \/ cycles < MaxCycles
    /\ userInput' = [kind |-> "line", text |-> line]
    /\ userchat' = Append(userchat, Turn("user", line))
    /\ history' = Append(history, Turn("user", line))
    /\ IF line = ExitLine
         THEN /\ pc' = "done"
              /\ UNCHANGED <<temperature, delivered, buffer, response,
                             cycles, entry, callStart>>
         ELSE /\ Call(userchat', DefaultTemperature, sink)
              /\ cycles' = cycles + 1
    /\ UNCHANGED <<args, model, requests, sink, error, pulled>>

\* ReadInput with the test of line 128 as userInput.lower() == "exit"
ReadInput_AnyCaseExit(line) ==
    /\ pc = "input"
    /\ line \in {ExitLine, <<"E", "x", "i", "t">>} \/ cycles < MaxCycles
    /\ userInput' = [kind |-> "line", text |-> line]
    /\ IF line \in {ExitLine, <<"E", "x", "i", "t">>}
         THEN /\ pc' = "done"
              /\ UNCHANGED <<userchat, history, temperature, delivered, buffer,
                             response, cycles, entry, callStart>>
         ELSE /\ userchat' = Append(userchat, Turn("user", line))
              /\ history' = Append(history, Turn("user", line))
              /\ Call(userchat', DefaultTemperature, sink)
              /\ cycles' = cycles + 1
    /\ UNCHANGED <<args, model, requests, sink, error, pulled>>

\* lines 127-131: input() returns a line
ReadInput(line) ==
    /\ pc = "input"
    /\ line = ExitLine \/ cycles < MaxCycles
    /\ userInput' = [kind |-> "line", text |-> line]
    /\ IF line = ExitLine
         THEN /\ pc' = "done"
              /\ UNCHANGED <<userchat, history, temperature, delivered, buffer,
                             response, cycles, entry, callStart>>
         ELSE /\ userchat' = Append(userchat, Turn("user", line))
              /\ history' = Append(history, Turn("user", line))
              /\ Call(userchat', DefaultTemperature, sink)
              /\ cycles' = cycles + 1
    /\ UNCHANGED <<args, model, requests, sink, error, pulled>>

\* line 127: input() raises EOFError at end of input
ReadEOF ==
    /\ pc = "input"
    /\ userInput' = [kind |-> "eof", text |-> NoText]
    /\ Raise("EOFError")
    /\ UNCHANGED <<args, model, history, userchat, temperature, requests, delivered, buffer, sink,
                   response, cycles, pulled, entry, callStart>>

----------------------------------------------------------------------------
(* Specifications *)

\* the command lines considered: args as parser() returns it (lines 56-74)
Args ==
    { [stream |-> s, temperature |-> o.temperature, tokenLimit |-> o.tokenLimit,
       string |-> q] :
        s \in BOOLEAN, q \in Questions,
        o \in { [temperature |-> DefaultTemperature, tokenLimit |-> tokenLimit],
                [temperature |-> 2, tokenLimit |-> 120] } }

\* the program at line 116
Init ==
    /\ args \in Args
    /\ model \in Models
    /\ history = <<>>
    /\ pc = "main"
    /\ userchat = <<>>
    /\ temperature = DefaultTemperature
    /\ requests = <<>>
    /\ delivered = <<>>
    /\ buffer = NoText
    /\ sink = <<>>
    /\ response = None
    /\ userInput = [kind |-> "none", text |-> NoText]
    /\ error = "none"
    /\ cycles = 0
    /\ pulled = 0
    /\ entry = <<>>
    /\ callStart = 0

Next ==
    \/ MainStream
    \/ MainSingle
    \/ Ask
    \/ AppendAssistant
    \/ \E line \in Lines : ReadInput(line)
    \/ ReadEOF

Spec == Init /\ [][Next]_vars

\* conversations handed to ask() directly
Roles == {"system", "user", "assistant"}

Contents == { <<"h", "i">>, <<"#">>, <<"#", "#">> }

RECURSIVE SeqsUpTo(_, _)
SeqsUpTo(S, n) ==
    IF n = 0 THEN { <<>> }
    ELSE LET shorter == SeqsUpTo(S, n - 1)
         IN shorter \cup { Append(s, x) : s \in shorter, x \in S }

\* a message with the optional name key, which line 43 tests for
NamedTurn == [role |-> "user", content |-> <<"h", "i">>, name |-> <<"b", "o", "b">>]

\* the messages a conversation handed to ask() is made of: long user
\* messages, short system and assistant messages, and a message with a name
ConversationTurns ==
    { t \in { Turn(r, c) : r \in Roles, c \in Contents } :
          (t.role = "user") = (t.content # <<"h", "i">>) }
    \cup { NamedTurn }

Conversations == SeqsUpTo(ConversationTurns, MaxTurns)

\* ask(client, messages) called on any conversation, with the default temperature
InitAsk ==
    /\ args = [stream |-> FALSE, temperature |-> DefaultTemperature,
               tokenLimit |-> tokenLimit, string |-> NoText]
    /\ userchat \in Conversations
    /\ model \in Models
    /\ history = userchat
    /\ pc = "ask"
    /\ temperature = DefaultTemperature
    /\ requests = <<>>
    /\ delivered = <<>>
    /\ buffer = NoText
    /\ sink = <<>>
    /\ response = None
    /\ userInput = [kind |-> "none", text |-> NoText]
    /\ error = "none"
    /\ cycles = 0
    /\ pulled = 0
    /\ entry = userchat
    /\ callStart = 0

NextAsk == Ask

SpecAsk == InitAsk /\ [][NextAsk]_vars

----------------------------------------------------------------------------
(* Vocabulary of the properties *)

\* s is t with some turns removed from the front
IsSuffix(s, t) ==
    /\ Len(s) <= Len(t)
    /\ \A i \in 1..Len(s) : s[i] = t[Len(t) - Len(s) + i]

\* the suffix of t that starts after its first k elements
DropFirst(t, k) == SubSeq(t, k + 1, Len(t))

RECURSIVE ContentOf(_)
\* the contents of the chunks that carry one, joined in the order of arrival
ContentOf(chunks) ==
    IF chunks = <<>> THEN <<>>
    ELSE LET last == chunks[Len(chunks)]
             before == ContentOf(SubSeq(chunks, 1, Len(chunks) - 1))
         IN IF last.hasContent THEN before \o last.content ELSE before

\* what the call in progress has written to standard output
SinkOfCall == DropFirst(sink, callStart)

\* the trimming step of the call has finished (normally)
Trimmed == pc \in {"create", "stream", "returned"}

\* number of turns the call has evicted
Evicted == Len(entry) - Len(userchat)

SystemTurns(conversation) ==
    { i \in 1..Len(conversation) : conversation[i].role = "system" }

----------------------------------------------------------------------------
(* C1 *)

\* C1: for a conversation of at least 2 turns, the trimming step of ask()
\* removes turns only from the front, removes a turn only while
\* estimate + 100 > limit and more than one turn remains, stops as soon as
\* estimate + 100 <= limit or exactly one turn remains, and so never removes
\* the last turn nor leaves the conversation empty.
C1_TrimKeepsLastTurn ==
    (Len(entry) >= 2 /\ pc \in {"trim", "create", "stream", "returned"}) =>
        /\ userchat # <<>>
        /\ IsSuffix(userchat, entry)
        /\ userchat[Len(userchat)] = entry[Len(entry)]
        /\ \A k \in 0..(Evicted - 1) :
               OverLimit(DropFirst(entry, k)) /\ Len(DropFirst(entry, k)) > 1
        /\ Trimmed => (~OverLimit(userchat) \/ Len(userchat) = 1)

----------------------------------------------------------------------------
(* C2 *)

\* C2: once the conversation is built, it holds exactly one system turn, at
\* position 0, in every state: trimming never evicts it and it is never
\* injected a second time.
C2_OneSystemTurnAtFront ==
    pc # "main" => SystemTurns(userchat) = {1}

----------------------------------------------------------------------------
(* C3 *)

\* C3: in interactive mode, when the request or its stream fails with a
\* transport error, the loop appends no assistant turn and goes on to read
\* the next operator input; the process does not end.
C3_TransportErrorContinues ==
    [][ (args.stream /\ pc \in {"create", "stream"} /\ error' = "TransportError")
        => (pc' = "input" /\ userchat' = userchat) ]_vars

----------------------------------------------------------------------------
(* C4 *)

\* a call that failed with a transport error after at least one fragment
FailedMidStream ==
    /\ pc = "crashed"
    /\ error = "TransportError"
    /\ delivered # <<>>

\* C4 as stated: after a transport failure mid-stream, the output sink holds
\* exactly the fragments already forwarded, the call yields an error and no
\* reply, and the turn list is identical to the turn list before the call.
C4_FailedCallLeavesTurnsUnchanged ==
    FailedMidStream =>
        /\ SinkOfCall = ContentOf(delivered)
        /\ response = None
        /\ userchat = entry

\* C4 as amended: after a transport failure mid-stream, the output sink holds
\* exactly the fragments already forwarded, the call yields an error and no
\* reply, and the turn list is the one sent in the request: the list before
\* the call without the turns that the trimming step evicted from its front;
\* no turn is appended and none is removed once the request is opened.
C4_FailedCallKeepsTrimmedTurns ==
    FailedMidStream =>
        /\ SinkOfCall = ContentOf(delivered)
        /\ response = None
        /\ userchat = requests[Len(requests)].messages
        /\ IsSuffix(userchat, entry)
        /\ userchat # <<>>
        /\ userchat[Len(userchat)] = entry[Len(entry)]

\* a failure after "Hel" was forwarded, in a call whose trimming evicted turns
C4_Witness ==
    /\ FailedMidStream
    /\ SinkOfCall = <<"H", "e", "l">>
    /\ Len(userchat) < Len(entry)

----------------------------------------------------------------------------
(* C5 *)

\* C5: end-of-input on the operator input ends the loop as "exit" does:
\* the program reaches its end with no error, no turn appended and no
\* request opened.
C5_EndOfInputIsGraceful ==
    [][ (pc = "input" /\ userInput'.kind = "eof")
        => (pc' = "done" /\ error' = "none" /\ userchat' = userchat
            /\ requests' = requests) ]_vars

----------------------------------------------------------------------------
(* C6 *)

\* C6: at every iteration of the interactive loop, the input "exit" ends
\* the loop with the conversation unchanged, without a call of ask() (no
\* request opened, nothing written) and without an error.
C6_ExitTerminatesUnchanged ==
    [][ (pc = "input" /\ userInput'.kind = "line" /\ userInput'.text = ExitLine)
        => (pc' = "done" /\ userchat' = userchat /\ requests' = requests
            /\ sink' = sink /\ error' = "none" /\ cycles' = cycles) ]_vars

\* "exit" typed after two full cycles of the loop
C6_Witness ==
    /\ pc = "done"
    /\ userInput = [kind |-> "line", text |-> ExitLine]
    /\ cycles = 2
    /\ Len(requests) = 3

----------------------------------------------------------------------------
(* C7 *)

\* C7: every input line other than exactly "exit" (the empty line and
\* "Exit" included) is appended as a new user turn at the end and starts
\* exactly one call of ask(); when the call returns, its reply is appended
\* as one assistant turn right after that user turn, exactly one request was
\* opened for the cycle, and the loop reads input again.
C7_OtherInputRunsOneCycle ==
    [][ /\ (pc = "input" /\ userInput'.kind = "line" /\ userInput'.text # ExitLine)
           => /\ userchat' = Append(userchat, Turn("user", userInput'.text))
              /\ pc' = "ask"
              /\ cycles' = cycles + 1
              /\ requests' = requests
        /\ (pc = "returned" /\ cycles >= 1)
           => /\ pc' = "input"
              /\ Len(userchat) >= 1
              /\ userchat[Len(userchat)] = Turn("user", userInput.text)
              /\ userchat' = Append(userchat, Turn("assistant", response.text))
              /\ ~response.isNone
              /\ Len(requests') = cycles + 1 ]_vars

\* "Exit" then the empty line, each answered, the loop reading again
C7_Witness ==
    /\ pc = "input"
    /\ cycles = 2
    /\ userInput = [kind |-> "line", text |-> NoText]
    /\ Len(userchat) >= 4
    /\ userchat[Len(userchat) - 3] = Turn("user", <<"E", "x", "i", "t">>)
    /\ userchat[Len(userchat) - 2].role = "assistant"
    /\ userchat[Len(userchat) - 1] = Turn("user", NoText)
    /\ userchat[Len(userchat)] = Turn("assistant", <<"H">>)

----------------------------------------------------------------------------
(* C8 *)

\* C8: the string ask() returns is the concatenation, in arrival order, of
\* the contents of exactly the chunks that carry content; chunks without
\* content add nothing and do not reorder the others.  The buffer is that
\* concatenation after every chunk.
C8_ReturnIsConcatenation ==
    /\ pc = "stream" => buffer = ContentOf(delivered)
    /\ (pc = "returned" /\ entry # <<>>) =>
           /\ ~response.isNone
           /\ response.text = ContentOf(delivered)

\* "el", a chunk without content, "H": the reply is "elH"
C8_Witness ==
    /\ pc = "returned"
    /\ delivered = <<Chunk(TRUE, <<"e", "l">>), Chunk(FALSE, NoText), Chunk(TRUE, <<"H">>)>>
    /\ response = Str(<<"e", "l", "H">>)

----------------------------------------------------------------------------
(* C9 *)

\* C9: during a call of ask(), at every point of the loop over the stream
\* the output written by the call is exactly the contents of the chunks
\* pulled so far, in arrival order (each is written before the next chunk
\* is pulled); when the call returns, the output of the call is the returned
\* text followed by exactly one newline, which the returned text lacks.
C9_SinkFollowsStream ==
    /\ pc = "stream" => SinkOfCall = ContentOf(delivered)
    /\ (pc = "returned" /\ entry # <<>>) =>
           /\ SinkOfCall = Append(response.text, Newline)
           /\ response.text = ContentOf(delivered)
           /\ Len(SinkOfCall) = Len(ContentOf(delivered)) + 1

\* a call in an interactive session, after earlier output, that returned "Hel"
C9_Witness ==
    /\ pc = "returned"
    /\ callStart > 2
    /\ delivered = <<Chunk(TRUE, <<"H">>), Chunk(TRUE, <<"e", "l">>)>>
    /\ response = Str(<<"H", "e", "l">>)
    /\ SinkOfCall = <<"H", "e", "l", Newline>>

----------------------------------------------------------------------------
(* C10 *)

\* C10: ask() on an empty conversation returns None at once: no request is
\* opened, nothing is written to standard output (no newline either), no
\* exception is raised and the conversation stays empty.
C10_EmptyConversationIsNoOp ==
    entry = <<>> =>
        /\ pc \in {"ask", "returned"}
        /\ pc = "returned" => response = None
        /\ requests = <<>>
        /\ sink = <<>>
        /\ userchat = <<>>
        /\ error = "none"

\* the call on the empty conversation has returned
C10_Witness ==
    /\ entry = <<>>
    /\ pc = "returned"
    /\ response = None

----------------------------------------------------------------------------
(* C11 *)

\* C11: a conversation that holds exactly one turn when ask() is called is
\* never changed by the call, and the request opened for it carries exactly
\* that turn, whatever its estimated token cost: nothing is evicted from a
\* lone turn and no estimate is computed for it.
C11_LoneTurnSentUnchanged ==
    Len(entry) = 1 =>
        /\ userchat = entry
        /\ pc # "trim"
        /\ error \notin {"KeyError", "IndexError", "BadRequestError"}
        /\ \A i \in 1..Len(requests) : requests[i].messages = entry

\* a lone turn far over the limit, sent as it is
C11_Witness ==
    /\ entry = <<Turn("user", <<"#", "#">>)>>
    /\ pc = "stream"
    /\ Len(requests) = 1
    /\ requests[1].messages = entry
    /\ OverLimit(entry)

----------------------------------------------------------------------------
(* C12 *)

\* C12: trimming is idempotent: once the trimming step of a call has
\* completed, the trimming step applied to its result evicts nothing: the
\* result has at most one turn (line 80 skips the loop) or its estimate + 100
\* is within the limit (line 81 is false at once).
C12_TrimIdempotent ==
    Trimmed => (Len(userchat) <= 1 \/ ~OverLimit(userchat))

\* a trim that evicted one turn of three and left two
C12_Witness ==
    /\ Trimmed
    /\ Len(entry) = 3
    /\ Len(userchat) = 2
    /\ OverLimit(entry)

----------------------------------------------------------------------------
(* C13 *)

HasName(turn) == "name" \in DOMAIN turn

\* the sum of f over the turns of a conversation, taken from the last turn back
RECURSIVE SumOverTurns(_, _)
SumOverTurns(f(_), conversation) ==
    IF conversation = <<>> THEN 0
    ELSE f(conversation[Len(conversation)])
         + SumOverTurns(f, SubSeq(conversation, 1, Len(conversation) - 1))

\* what C13 lets one turn contribute besides the per-message overhead
ClaimedTurnTokens(turn) ==
    EncodeLen(turn.content) + (IF HasName(turn) THEN 1 ELSE 0)

\* what one turn contributes besides the per-message overhead: the tokens of
\* the values of all its fields, the role included, and 1 for a name field
AllFieldsTurnTokens(turn) ==
    1 + EncodeLen(turn.content)
    + (IF HasName(turn) THEN EncodeLen(turn.name) + 1 ELSE 0)

\* C13 as stated: the estimate is 3 * turnCount + the sum over the turns of
\* tokenCount(content) (+ 1 for a turn with a name field) + 3, and no other
\* field of a turn contributes.
C13_EstimateCountsContentOnly ==
    \A c \in {entry, userchat} :
        num_tokens_from_messages(c) = 3 * Len(c) + SumOverTurns(ClaimedTurnTokens, c) + 3

\* C13 as amended: the estimate is 3 * turnCount + the sum over the turns of
\* the token counts of the values of all the fields of the turn (role,
\* content, and name when present) (+ 1 for a turn with a name field) + 3.
C13_EstimateCountsAllFields ==
    \A c \in {entry, userchat} :
        num_tokens_from_messages(c) = 3 * Len(c) + SumOverTurns(AllFieldsTurnTokens, c) + 3

\* the estimate of a conversation of three turns, one of them with a name
C13_Witness ==
    /\ Len(entry) = 3
    /\ entry[2] = NamedTurn
    /\ entry[3].content = <<"#">>
    /\ num_tokens_from_messages(entry) = 127907
    /\ pc = "trim"

----------------------------------------------------------------------------
(* C14 *)

\* C14: for every conversation c and every turn t, the estimate of c with t
\* appended is at least the estimate of c; evicting the oldest turn never
\* increases the estimate, so the estimate never grows while a call trims.
\* (Every conversation of up to MaxTurns turns is the userchat of a state
\* with pc = "ask"; the states of the trim loop are its evictions.)
C14_EstimateMonotone ==
    /\ pc = "ask" =>
           \A t \in ConversationTurns :
               num_tokens_from_messages(Append(userchat, t))
                   >= num_tokens_from_messages(userchat)
    /\ (pc = "ask" /\ userchat # <<>>) =>
           num_tokens_from_messages(Tail(userchat)) <= num_tokens_from_messages(userchat)
    /\ (pc = "trim" /\ IsSuffix(userchat, entry)) =>
           num_tokens_from_messages(userchat) <= num_tokens_from_messages(entry)

\* a trim in progress that evicted a long turn in front of a short one
C14_Witness ==
    /\ pc = "trim"
    /\ Len(entry) = 3
    /\ Len(userchat) = 2
    /\ entry[1].content = <<"#", "#">>
    /\ userchat[2].content = <<"h", "i">>
    /\ num_tokens_from_messages(userchat) < num_tokens_from_messages(entry)

----------------------------------------------------------------------------
(* C15 *)

\* the call failed, or will fail, with the tokenizer's error and nothing else
\* has happened: no request, no eviction, no output
FailsUnsupported ==
    /\ pc \in {"ask", "trim", "crashed"}
    /\ pc = "crashed" => error = "KeyError"
    /\ requests = <<>>
    /\ userchat = entry
    /\ sink = <<>>

\* C15 as stated: when the tokenizer has no encoding for the model id, a
\* cycle on a conversation of any length (one turn or more) fails with that
\* error before a request is opened and before a turn is evicted.
C15_UnsupportedModelFailsAnyLength ==
    (~HasEncoding(model) /\ Len(entry) >= 1) => FailsUnsupported

\* C15 as amended: when the tokenizer has no encoding for the model id, a
\* cycle on a conversation of at least two turns fails with that error
\* before a request is opened and before a turn is evicted, and no default
\* count is used; a conversation of one turn is sent without an estimate.
C15_UnsupportedModelFailsTwoTurns ==
    /\ (~HasEncoding(model) /\ Len(entry) >= 2) => FailsUnsupported
    /\ (~HasEncoding(model) /\ Len(entry) = 1) =>
           (pc # "trim" /\ error # "KeyError" /\ userchat = entry)

\* the call on three turns has failed with the tokenizer's error
C15_Witness ==
    /\ ~HasEncoding(model)
    /\ Len(entry) = 3
    /\ OverLimit(entry)
    /\ pc = "crashed"
    /\ error = "KeyError"

----------------------------------------------------------------------------
(* C16 *)

\* s is the beginning of t
IsPrefix(s, t) ==
    /\ Len(s) <= Len(t)
    /\ \A i \in 1..Len(s) : s[i] = t[i]

\* number of turns of the history that are no longer in the conversation
EvictedOfHistory == Len(history) - Len(userchat)

\* C16: at every step of a session the conversation is a contiguous suffix
\* of the history of all turns ever appended; a step changes it only by an
\* append at the end (the history grows by the same turns) or by the eviction
\* of its first turn; the number of evicted turns never decreases, so an
\* evicted turn is in no later request; and every request opened carries the
\* conversation as it is then.
C16_ConversationIsSuffixOfHistory ==
    [][ /\ IsSuffix(userchat, history)
        /\ IsSuffix(userchat', history')
        /\ IsPrefix(history, history')
        /\ EvictedOfHistory' >= EvictedOfHistory
        /\ \/ userchat' = userchat /\ history' = history
           \/ /\ history' # history
              /\ IsPrefix(userchat, userchat')
              /\ DropFirst(userchat', Len(userchat)) = DropFirst(history', Len(history))
           \/ userchat # <<>> /\ userchat' = Tail(userchat) /\ history' = history
        /\ requests' # requests =>
               /\ requests' = Append(requests, requests'[Len(requests')])
               /\ requests'[Len(requests')].messages = userchat'
               /\ userchat' = userchat ]_vars

\* a request opened after turns were evicted and others appended
C16_Witness ==
    /\ pc = "stream"
    /\ cycles = 2
    /\ Len(requests) = 3
    /\ EvictedOfHistory >= 2
    /\ Len(userchat) >= 2
    /\ requests[3].messages = DropFirst(history, EvictedOfHistory)

----------------------------------------------------------------------------
(* C17 *)

\* C17: the limit the trimming step compares against is the configured one
\* (args.tokenLimit, the value of --tokenLimit or its default): the loop
\* evicts a turn only while estimate + 100 > args.tokenLimit and leaves only
\* when estimate + 100 <= args.tokenLimit.
C17_TrimUsesConfiguredLimit ==
    [][ /\ (pc = "trim" /\ pc' = "create")
           => num_tokens_from_messages(userchat) + 100 <= args.tokenLimit
        /\ (pc = "trim" /\ userchat' # userchat)
           => num_tokens_from_messages(userchat) + 100 > args.tokenLimit ]_vars

----------------------------------------------------------------------------
(* C18 *)

\* C18: every request opened during a session, in the first cycle and in
\* every later one, carries the configured temperature args.temperature.
C18_RequestsUseConfiguredTemperature ==
    \A i \in 1..Len(requests) : requests[i].temperature = args.temperature

----------------------------------------------------------------------------
(* C19 *)

\* the user turn the loop appended last: the question, then the latest line
LatestUserTurn ==
    Turn("user", IF cycles = 0 THEN args.string ELSE userInput.text)

\* C19: every request the loop submits holds at least one turn, and its
\* last turn is the user turn the loop appended most recently.
C19_RequestEndsWithLatestUserTurn ==
    [][ requests' # requests =>
          LET sent == requests'[Len(requests')].messages
          IN /\ sent # <<>>
             /\ sent[Len(sent)] = LatestUserTurn ]_vars

----------------------------------------------------------------------------
(* C20 *)

\* C20: the trimming loop of a call on turnCount turns ends after at most
\* turnCount - 1 evictions and never pops from an empty conversation.
C20_TrimEvictsAtMostAllButOne ==
    Len(entry) >= 1 =>
        /\ Evicted <= Len(entry) - 1
        /\ error # "IndexError"

====
